---------------------------- MODULE Spec2Model ----------------------------
(***************************************************************************)
(* Model of weekly_meetings_to_slack.py: one run of main() against a CRM   *)
(* (HubSpot) and a Slack webhook, plus the pure timestamp normalizer       *)
(* parse_hubspot_datetime.                                                 *)
(*                                                                         *)
(* Epoch values do not fit TLC's 32-bit integers (10,000,000,000 is the    *)
(* normalizer's threshold), so every integer timestamp is kept as a pair   *)
(* <<hi, lo>> standing for hi * Base + lo with 0 <= lo < Base = 10^5.      *)
(* An instant is such a pair counting milliseconds since the epoch.        *)
(***************************************************************************)
EXTENDS Integers, Sequences, FiniteSets, TLC

VARIABLES
    crm,                \* CRM content: sequence of meeting records (id = position)
    now,                \* wall clock read by main(), an instant
    DEBUG,              \* the DEBUG environment flag
    pc,                 \* position of main()
    err,                \* "" or the call whose exception ended the run
    week_start, week_end,
    meetings_raw, mode,
    candidates, parse_errors,
    ci,                 \* index of the next candidate of the association loop
    meeting_to_contact_ids, all_contact_ids, assoc_fail,
    contacts,
    grouped, no_contact,
    built,              \* the grouping as build_message received it
    msg,                \* the digest text built by build_message
    calls,              \* every HTTP request issued so far, in order
    pIn, pOut           \* input and result of a stand-alone normalizer call

vars == <<crm, now, DEBUG, pc, err, week_start, week_end, meetings_raw, mode,
          candidates, parse_errors, ci, meeting_to_contact_ids,
          all_contact_ids, assoc_fail, contacts, grouped, no_contact, built,
          msg, calls, pIn, pOut>>

None == "None"

(***************************************************************************)
(* Two-limb integers                                                       *)
(***************************************************************************)
Base == 10 ^ 5

Norm(hi, lo) == <<hi + (lo \div Base), lo % Base>>

Lt(a, b) == a[1] < b[1] \/ (a[1] = b[1] /\ a[2] < b[2])

Le(a, b) == a = b \/ Lt(a, b)

Plus(a, b) == Norm(a[1] + b[1], a[2] + b[2])

Minus(a, b) == Norm(a[1] - b[1], a[2] - b[2])

Times1000(a) == Norm(a[1] * 1000, a[2] * 1000)

HourMs == <<(3600 * 1000) \div Base, 0>>

Hours(h) == <<h * HourMs[1], 0>>

Days(d) == Hours(24 * d)

(***************************************************************************)
(* TIMEZONE = Europe/Berlin.  The modelled dates are all in standard time  *)
(* (CET), where the zone is one hour ahead of UTC.                         *)
(***************************************************************************)
TIMEZONE == Hours(1)

\* datetime.weekday() of the local date of instant t (1970-01-01: Thursday = 3)
weekday(t) == ((Plus(t, TIMEZONE)[1] \div Days(1)[1]) + 3) % 7

\* local midnight of the local date of instant t, as an instant
LocalMidnight(t) ==
    LET local == Plus(t, TIMEZONE)
    IN  Minus(<<(local[1] \div Days(1)[1]) * Days(1)[1], 0>>, TIMEZONE)

week_window(n) ==
    LET start == Minus(LocalMidnight(n), Days(weekday(n)))
    IN  [start |-> start, end |-> Plus(start, Days(7))]

(***************************************************************************)
(* parse_hubspot_datetime.  A raw value is                                 *)
(*   [kind |-> "none"]                    None                             *)
(*   [kind |-> "empty"]                   ""                               *)
(*   [kind |-> "int",  n |-> <<hi, lo>>]  an int, or a string int() reads  *)
(*   [kind |-> "iso",  wall |-> w, zone |-> z]  an ISO-8601 string whose   *)
(*        date and time fields read w (ms since the epoch, as if UTC) and  *)
(*        whose suffix z is "Z", "" (naive) or "+01:00"                    *)
(*   [kind |-> "text"]                    any other string                 *)
(* The result is [ok |-> TRUE, ms |-> instant] or [ok |-> FALSE] (raised). *)
(***************************************************************************)
MS_THRESHOLD == <<Base, 0>>          \* 10_000_000_000

\* sorts behind every instant of the model
MaxInstant == <<2147483647, 0>>

Raised == [ok |-> FALSE]

Parsed(t) == [ok |-> TRUE, ms |-> t]

\* datetime.fromtimestamp raises below year 1: 0001-01-01T00:00:00Z in seconds
MinSeconds == <<-621356, 3200>>

IsoOffset(z) == IF z = "+01:00" THEN Hours(1) ELSE <<0, 0>>

\* faulty variant: the threshold itself is still read as seconds
parse_numeric_mut_le(n) ==
    IF Le(n, MS_THRESHOLD)
    THEN IF Lt(n, MinSeconds) THEN Raised ELSE Parsed(Times1000(n))
    ELSE Parsed(n)

\* lines 73-76: int(value); seconds -> ms below the threshold; fromtimestamp
parse_numeric(n) ==
    IF Lt(n, MS_THRESHOLD)
    THEN IF Lt(n, MinSeconds) THEN Raised ELSE Parsed(Times1000(n))
    ELSE Parsed(n)

parse_hubspot_datetime(value) ==
    CASE value.kind \in {"none", "empty"} -> Raised
      [] value.kind = "int"  -> parse_numeric(value.n)
      [] value.kind = "iso"  -> Parsed(Minus(value.wall, IsoOffset(value.zone)))
      [] OTHER               -> Raised


(***************************************************************************)
(* Sequence helpers                                                        *)
(***************************************************************************)
Take(s, n) == IF Len(s) <= n THEN s ELSE SubSeq(s, 1, n)

Range(s) == {s[i] : i \in 1..Len(s)}

Reverse(s) == [i \in 1..Len(s) |-> s[Len(s) + 1 - i]]

\* a function over 1..n, evaluated once, as a sequence
Seq1(f, n) == SubSeq(f, 1, n)

\* list.sort(key=...) / sorted(..., key=...): ascending by key, elements of
\* equal key in their original order.  keyOf[i] is the key of s[i]; rank[i]
\* is the place s[i] moves to.
StableSort(s, keyOf) ==
    LET n    == Len(s)
        keys == Seq1(keyOf, n)
        before(j, i) == Lt(keys[j], keys[i]) \/ (j < i /\ keys[j] = keys[i])
        rank == Seq1([i \in 1..n |-> 1 + Cardinality({j \in 1..n : before(j, i)})], n)
    IN  Seq1([p \in 1..n |-> s[CHOOSE i \in 1..n : rank[i] = p]], n)

(***************************************************************************)
(* The CRM.  A stored meeting carries what the search delivers (id and the *)
(* three requested properties) and what the associations endpoint answers  *)
(* for it: the ordered contact ids, or an HTTP error (assoc_ok = FALSE).   *)
(***************************************************************************)
limit == 100

W0 == <<17651484, 0>>                \* Monday 2025-12-08 00:00 Europe/Berlin

Ms(t) == [kind |-> "int", n |-> t]

Thu10 == Plus(W0, Plus(Days(3), Hours(10)))

StartVals ==
    [ wkStart  |-> Ms(W0),
      wkEnd    |-> Ms(Plus(W0, Days(7))),
      wkLast   |-> Ms(Minus(Plus(W0, Days(7)), <<0, 1>>)),
      before   |-> Ms(Minus(W0, <<0, 1>>)),
      thuMs    |-> Ms(Thu10),
      thuSec   |-> Ms(<<17654, 43600>>),
      thuIso   |-> [kind |-> "iso", wall |-> Plus(Thu10, Hours(1)), zone |-> "+01:00"],
      tueIso   |-> [kind |-> "iso", wall |-> Plus(W0, Hours(34)), zone |-> "Z"],
      friIso   |-> [kind |-> "iso", wall |-> Plus(W0, Hours(110)), zone |-> ""],
      missing  |-> [kind |-> "none"],
      empty    |-> [kind |-> "empty"],
      text     |-> [kind |-> "text"] ]

Stored(start, owner, title, cids, ok) ==
    [start |-> start, owner |-> owner, title |-> title, cids |-> cids, assoc_ok |-> ok]

Templates ==
    { Stored(StartVals.thuMs,   "29202437", "Kickoff", <<"c1", "c2">>, TRUE),
      Stored(StartVals.thuSec,  "29202437", None,      <<"c4", "c1">>, TRUE),
      Stored(StartVals.thuIso,  "29202437", "Review",  <<"c2">>,       FALSE),
      Stored(StartVals.tueIso,  "999",      "Demo",    <<"c3">>,       TRUE),
      Stored(StartVals.friIso,  "999",      "Retro",   <<>>,           TRUE),
      Stored(StartVals.wkStart, "999",      "Early",   <<"c1">>,       TRUE),
      Stored(StartVals.wkEnd,   "29202437", "Late",    <<"c1">>,       TRUE),
      Stored(StartVals.wkLast,  "29202437", "Last",    <<"c2">>,       TRUE),
      Stored(StartVals.before,  "999",      "Past",    <<"c1">>,       TRUE),
      Stored(StartVals.text,    "999",      "Broken",  <<"c1">>,       TRUE),
      Stored(StartVals.missing, "999",      "NoTime",  <<"c1">>,       TRUE),
      Stored(StartVals.thuMs,   None,       "NoOwner", <<"c1">>,       TRUE) }

MaxMeetings == 2

\* k meetings on Thursday, one minute apart
Filler(k) ==
    [i \in 1..k |->
        Stored(Ms(Plus(Thu10, <<0, 60000 * i>>)), "76287207", "Weekly", <<"c1">>, TRUE)]

\* every content of up to MaxMeetings meetings, and one that holds one
\* meeting more than a result page
CrmContents ==
    UNION {[1..n -> Templates] : n \in 0..MaxMeetings} \cup {Filler(limit + 1)}

\* the contacts object store: firstname, lastname, email per known id
Directory ==
    [ c1 |-> [firstname |-> "Jane", lastname |-> "Doe", email |-> "jane@example.com"],
      c2 |-> [firstname |-> None,   lastname |-> None,  email |-> "info@example.com"],
      c3 |-> [firstname |-> None,   lastname |-> None,  email |-> None] ]

\* a search result: the id and the requested properties
Result(i) == [id |-> i, start |-> crm[i].start, owner |-> crm[i].owner, title |-> crm[i].title]

\* the instant the CRM holds for a stored start value (FALSE: none)
HasInstant(r) == parse_hubspot_datetime(r.start).ok

InstantOf(r) == parse_hubspot_datetime(r.start).ms

SortKey(r) == IF HasInstant(r) THEN InstantOf(r) ELSE MaxInstant

\* the instant a filter value stands for, as the search endpoint reads it
FilterInstant(v) == IF v.kind = "int" THEN v.n ELSE Minus(v.wall, IsoOffset(v.zone))

\* The search endpoint: filter (BETWEEN is inclusive), sort, cut to the limit.
\* how: "filtered" the filter is applied; "ignored" it is not; "none" the
\* portal does not match the value format and finds nothing.
ServerSearch(body, how) ==
    LET all  == [i \in 1..Len(crm) |-> Result(i)]
        hit(r) == /\ HasInstant(r)
                  /\ Le(FilterInstant(body.filter.value), InstantOf(r))
                  /\ Le(InstantOf(r), FilterInstant(body.filter.highValue))
        kept == IF body.filter.operator = "none" \/ how = "ignored" THEN all
                ELSE IF how = "none" THEN <<>>
                ELSE SelectSeq(all, hit)
        asc  == StableSort(kept, [i \in 1..Len(kept) |-> SortKey(kept[i])])
    IN  Take(IF body.direction = "ASCENDING" THEN asc ELSE Reverse(asc), body.limit)


(***************************************************************************)
(* fetch_meetings_candidates: the three request bodies                     *)
(***************************************************************************)
\* str(int(week_start.timestamp() * 1000))
AsMs(t) == [kind |-> "int", n |-> t]

\* week_start.astimezone(UTC).isoformat().replace("+00:00", "Z")
AsIsoZ(t) == [kind |-> "iso", wall |-> t, zone |-> "Z"]

body_ms(ws, we) ==
    [ filter    |-> [operator |-> "BETWEEN", value |-> AsMs(ws), highValue |-> AsMs(we)],
      direction |-> "ASCENDING",
      limit     |-> limit ]

body_iso(ws, we) ==
    [ filter    |-> [operator |-> "BETWEEN", value |-> AsIsoZ(ws), highValue |-> AsIsoZ(we)],
      direction |-> "ASCENDING",
      limit     |-> limit ]

body_any ==
    [ filter    |-> [operator |-> "none"],
      direction |-> "DESCENDING",
      limit     |-> limit ]

\* an entry of the request log: the request and what came back
Call(api, arg, ok, results) ==
    [api |-> api, arg |-> arg, reply |-> [ok |-> ok, results |-> results]]

(***************************************************************************)
(* main(): the local filter (lines 229-252)                                *)
(***************************************************************************)
Truthy(v) == v.kind \notin {"none", "empty"}

HasOwner(m) == m.owner \notin {None, ""}

\* faulty variant: the window is closed at its end
InWindow_mut_closed(dt, ws, we) == Le(ws, dt) /\ Le(dt, we)

\* week_start <= dt < week_end
InWindow(dt, ws, we) == Le(ws, dt) /\ Lt(dt, we)

IsCandidate(m, ws, we, n) ==
    /\ Truthy(m.start)
    /\ HasOwner(m)
    /\ parse_hubspot_datetime(m.start).ok
    /\ InWindow(parse_hubspot_datetime(m.start).ms, ws, we)
    /\ ~ Lt(parse_hubspot_datetime(m.start).ms, n)

IsParseError(m) ==
    Truthy(m.start) /\ HasOwner(m) /\ ~ parse_hubspot_datetime(m.start).ok

Candidate(m) ==
    [ id        |-> m.id,
      owner     |-> m.owner,
      dt        |-> parse_hubspot_datetime(m.start).ms,
      title     |-> IF m.title \in {None, ""} THEN "Meeting" ELSE m.title,
      start_val |-> m.start ]

LocalFilter(raw, ws, we, n) ==
    LET keep(m) == IsCandidate(m, ws, we, n)
        kept    == SelectSeq(raw, keep)
    IN  [i \in 1..Len(kept) |-> Candidate(kept[i])]

(***************************************************************************)
(* fetch_contact_ids_for_meeting and batch_read_contacts                   *)
(***************************************************************************)
DisplayName(id, p) ==
    LET given(x) == x \notin {None, ""}
        parts    == SelectSeq(<<p.firstname, p.lastname>>, given)
    IN  IF parts # <<>> THEN parts
        ELSE IF given(p.email) THEN <<p.email>>
        ELSE <<"Contact", id>>

batch_read_contacts(contact_ids) ==
    [id \in contact_ids \cap DOMAIN Directory |-> DisplayName(id, Directory[id])]

(***************************************************************************)
(* main(): grouping (lines 270-282).  grouped is the dict as a sequence of *)
(* [owner, items] in key insertion order.  An item is the tuple            *)
(* (dt, contact_name, title); mid, the meeting it was made from, is        *)
(* bookkeeping the program does not keep.                                  *)
(***************************************************************************)
ContactIdsOf(m2c, meeting_id) ==
    IF meeting_id \in DOMAIN m2c THEN m2c[meeting_id] ELSE <<>>

\* faulty variant: the last id of the list is taken for the first
ContactName_mut_last(dir, cids) ==
    IF cids[Len(cids)] \in DOMAIN dir THEN dir[cids[Len(cids)]]
    ELSE <<"Contact", cids[Len(cids)]>>

\* contacts.get(cids[0], f"Contact {cids[0]}")
ContactName(dir, cids) ==
    IF cids[1] \in DOMAIN dir THEN dir[cids[1]] ELSE <<"Contact", cids[1]>>

\* faulty variant: a candidate without contact ids is grouped under a placeholder
GroupCandidates_mut_keep(cands, m2c, dir) ==
    LET n       == Len(cands)
        item(c) == [ dt |-> c.dt,
                     contact |-> IF ContactIdsOf(m2c, c.id) = <<>> THEN <<"Contact", None>>
                                 ELSE ContactName(dir, ContactIdsOf(m2c, c.id)),
                     title |-> c.title, mid |-> c.id ]
        first(i) == \A j \in 1..(i - 1) : cands[j].owner # cands[i].owner
        keys    == SelectSeq([i \in 1..n |-> i], first)
        of(o)   == LET mine(c) == c.owner = o
                       cs == SelectSeq(cands, mine)
                   IN  Seq1([j \in 1..Len(cs) |-> item(cs[j])], Len(cs))
    IN  Seq1([k \in 1..Len(keys) |->
                [owner |-> cands[keys[k]].owner, items |-> of(cands[keys[k]].owner)]],
             Len(keys))

Item(c, dir, m2c) ==
    [ dt      |-> c.dt,
      contact |-> ContactName(dir, ContactIdsOf(m2c, c.id)),
      title   |-> c.title,
      mid     |-> c.id ]

\* The loop of lines 273-279: candidates without contact ids are skipped; a
\* key enters the dict when its first item is appended, and every owner's
\* list receives its items in candidate order.
GroupCandidates(cands, m2c, dir) ==
    LET has(c)  == ContactIdsOf(m2c, c.id) # <<>>
        kept    == SelectSeq(cands, has)
        n       == Len(kept)
        first(i) == \A j \in 1..(i - 1) : kept[j].owner # kept[i].owner
        keys    == SelectSeq([i \in 1..n |-> i], first)
        of(o)   == LET mine(c) == c.owner = o
                       cs == SelectSeq(kept, mine)
                   IN  Seq1([j \in 1..Len(cs) |-> Item(cs[j], dir, m2c)], Len(cs))
    IN  Seq1([k \in 1..Len(keys) |->
                [owner |-> kept[keys[k]].owner, items |-> of(kept[keys[k]].owner)]],
             Len(keys))

\* faulty variant: the sort is forgotten
SortGroup_mut_nosort(items) == items

\* grouped[owner].sort(key=lambda x: x[0])
SortGroup(items) == StableSort(items, [i \in 1..Len(items) |-> items[i].dt])

SortGroups(g) ==
    [i \in 1..Len(g) |-> [owner |-> g[i].owner, items |-> SortGroup(g[i].items)]]

NoContactCount(cands, m2c) ==
    Cardinality({k \in 1..Len(cands) : ContactIdsOf(m2c, cands[k].id) = <<>>})

(***************************************************************************)
(* build_message                                                           *)
(***************************************************************************)
OWNER_TO_SLACK ==
    ("29202437" :> "<@U08N63C58BC>") @@ ("76287207" :> "<@U085X3R20P7>")

Handle(owner) ==
    IF owner \in DOMAIN OWNER_TO_SLACK THEN <<OWNER_TO_SLACK[owner]>> ELSE <<"ID", owner>>

\* strftime("%d.%m.%Y"): the local calendar day, as a day number
LocalDay(t) == Plus(t, TIMEZONE)[1] \div Days(1)[1]

Line(x) == [contact |-> x.contact, title |-> x.title, dt |-> x.dt]

build_message(g, ws, we) ==
    LET period == <<LocalDay(ws), LocalDay(Minus(we, <<0, 1000>>))>>
        owners_sorted == StableSort(g, [i \in 1..Len(g) |-> g[i].items[1].dt])
    IN  IF g = <<>>
        THEN [kind |-> "digest", period |-> period, none |-> TRUE, blocks |-> <<>>]
        ELSE [kind |-> "digest", period |-> period, none |-> FALSE,
              blocks |-> [i \in 1..Len(owners_sorted) |->
                  [handle |-> Handle(owners_sorted[i].owner),
                   lines  |-> [j \in 1..Len(owners_sorted[i].items) |->
                                  Line(owners_sorted[i].items[j])]]]]

debug_message ==
    [ kind |-> "debug", mode |-> mode, raw |-> Len(meetings_raw),
      candidates |-> Len(candidates), parse_errors |-> parse_errors,
      assoc_fail |-> assoc_fail, no_contact |-> no_contact,
      owners |-> Len(grouped), samples |-> Take(candidates, 3) ]


(***************************************************************************)
(* One run of main()                                                       *)
(***************************************************************************)
NowChoices == { W0, Plus(W0, Hours(60)) }   \* Monday 00:00, Wednesday 12:00

Unset == [kind |-> "unset"]

NoInput == [kind |-> "none"]

Idle ==
    /\ err = ""
    /\ week_start = <<0, 0>> /\ week_end = <<0, 0>>
    /\ meetings_raw = <<>> /\ mode = ""
    /\ candidates = <<>> /\ parse_errors = 0
    /\ ci = 1
    /\ meeting_to_contact_ids = <<>> /\ all_contact_ids = {} /\ assoc_fail = 0
    /\ contacts = <<>>
    /\ grouped = <<>> /\ no_contact = 0
    /\ built = <<>>
    /\ msg = Unset
    /\ calls = <<>>

Init ==
    /\ crm \in CrmContents
    /\ now \in NowChoices
    /\ DEBUG \in BOOLEAN
    /\ pc = "start"
    /\ Idle
    /\ pIn = NoInput /\ pOut = <<>>

\* faulty variant: the exception is swallowed and the run goes on to the digest
Fail_mut_swallow(what) == pc' = "debug" /\ err' = what

\* raise_for_status raises and nothing catches it: main() ends with the error
Fail(what) == pc' = "failed" /\ err' = what

\* lines 223-224
Main_Start ==
    /\ pc = "start"
    /\ week_start' = week_window(now).start
    /\ week_end' = week_window(now).end
    /\ pc' = "search_ms"
    /\ UNCHANGED <<crm, now, DEBUG, err, meetings_raw, mode, candidates,
                   parse_errors, ci, meeting_to_contact_ids, all_contact_ids,
                   assoc_fail, contacts, grouped, no_contact, built, msg,
                   calls, pIn, pOut>>

\* One meetings_search call of fetch_meetings_candidates: the request is sent;
\* raise_for_status raises, or the results come back and the cascade goes on.
Search(at, body, label, next) ==
    /\ pc = at
    /\ \E how \in {"error", "filtered", "ignored", "none"} :
         IF how = "error"
         THEN /\ calls' = Append(calls, Call("meetings_search", body, FALSE, <<>>))
              /\ Fail("meetings_search")
              /\ UNCHANGED <<meetings_raw, mode>>
         ELSE LET res == ServerSearch(body, how)
              IN  /\ calls' = Append(calls, Call("meetings_search", body, TRUE, res))
                  /\ IF res # <<>> \/ next = "filter"
                     THEN meetings_raw' = res /\ mode' = label /\ pc' = "filter"
                                              /\ UNCHANGED err
                     ELSE pc' = next /\ UNCHANGED <<meetings_raw, mode, err>>
    /\ UNCHANGED <<crm, now, DEBUG, week_start, week_end, candidates,
                   parse_errors, ci, meeting_to_contact_ids, all_contact_ids,
                   assoc_fail, contacts, grouped, no_contact, built, msg,
                   pIn, pOut>>

\* faulty variant: an empty ms-range result goes straight to the unfiltered search
SearchMs_mut_skip_iso ==
    Search("search_ms", body_ms(week_start, week_end), "search_between_ms", "search_any")

\* lines 122-124
SearchMs == Search("search_ms", body_ms(week_start, week_end), "search_between_ms", "search_iso")

\* lines 141-143
SearchIso == Search("search_iso", body_iso(week_start, week_end), "search_between_iso", "search_any")

\* lines 151-152
SearchAny == Search("search_any", body_any, "search_unfiltered_fallback", "filter")

\* lines 229-252
FilterCandidates ==
    /\ pc = "filter"
    /\ candidates' = LocalFilter(meetings_raw, week_start, week_end, now)
    /\ parse_errors' = Cardinality({i \in 1..Len(meetings_raw) : IsParseError(meetings_raw[i])})
    /\ pc' = IF candidates' = <<>> THEN "batch" ELSE "assoc"
    /\ UNCHANGED <<crm, now, DEBUG, err, week_start, week_end, meetings_raw,
                   mode, ci, meeting_to_contact_ids, all_contact_ids,
                   assoc_fail, contacts, grouped, no_contact, built, msg,
                   calls, pIn, pOut>>

\* faulty variant: no except clause, the failed lookup ends the run
OnAssocError_mut_raise == Fail("fetch_contact_ids_for_meeting") /\ assoc_fail' = assoc_fail

\* what the except clause of the association loop does with a failed lookup
OnAssocError == /\ assoc_fail' = assoc_fail + 1
                /\ pc' = IF ci = Len(candidates) THEN "batch" ELSE "assoc"
                /\ UNCHANGED err

\* lines 259-266, one iteration
AssocLookup ==
    /\ pc = "assoc"
    /\ LET meeting_id == candidates[ci].id
           ok   == crm[meeting_id].assoc_ok
           cids == IF ok THEN crm[meeting_id].cids ELSE <<>>
       IN  /\ calls' = Append(calls, Call("associations", [id |-> meeting_id], ok, cids))
           /\ IF ok
              THEN /\ assoc_fail' = assoc_fail
                   /\ pc' = IF ci = Len(candidates) THEN "batch" ELSE "assoc"
                   /\ UNCHANGED err
              ELSE OnAssocError
           /\ meeting_to_contact_ids' = (meeting_id :> cids) @@ meeting_to_contact_ids
           /\ all_contact_ids' = all_contact_ids \cup Range(cids)
    /\ ci' = ci + 1
    /\ UNCHANGED <<crm, now, DEBUG, week_start, week_end, meetings_raw, mode,
                   candidates, parse_errors, contacts, grouped, no_contact,
                   built, msg, pIn, pOut>>

\* line 268
BatchRead ==
    /\ pc = "batch"
    /\ IF all_contact_ids = {}
       THEN contacts' = <<>> /\ pc' = "group" /\ UNCHANGED <<calls, err>>
       ELSE /\ \E ok \in BOOLEAN :
                 /\ calls' = Append(calls, Call("batch_read", [inputs |-> all_contact_ids], ok, <<>>))
                 /\ IF ok
                    THEN contacts' = batch_read_contacts(all_contact_ids)
                         /\ pc' = "group" /\ UNCHANGED err
                    ELSE Fail("batch_read_contacts") /\ UNCHANGED contacts
    /\ UNCHANGED <<crm, now, DEBUG, week_start, week_end, meetings_raw, mode,
                   candidates, parse_errors, ci, meeting_to_contact_ids,
                   all_contact_ids, assoc_fail, grouped, no_contact, built,
                   msg, pIn, pOut>>

\* lines 270-282
Group ==
    /\ pc = "group"
    /\ grouped' = SortGroups(GroupCandidates(candidates, meeting_to_contact_ids, contacts))
    /\ no_contact' = NoContactCount(candidates, meeting_to_contact_ids)
    /\ pc' = "debug"
    /\ UNCHANGED <<crm, now, DEBUG, err, week_start, week_end, meetings_raw,
                   mode, candidates, parse_errors, ci, meeting_to_contact_ids,
                   all_contact_ids, assoc_fail, contacts, built, msg, calls,
                   pIn, pOut>>

\* lines 285-302, with the flag that guards them
DebugStep(flag) ==
    /\ pc = "debug"
    /\ IF flag
       THEN \E ok \in BOOLEAN :
                 /\ calls' = Append(calls, Call("slack", debug_message, ok, <<>>))
                 /\ IF ok THEN pc' = "digest" /\ UNCHANGED err
                    ELSE Fail("post_to_slack")
       ELSE pc' = "digest" /\ UNCHANGED <<calls, err>>
    /\ UNCHANGED <<crm, now, DEBUG, week_start, week_end, meetings_raw, mode,
                   candidates, parse_errors, ci, meeting_to_contact_ids,
                   all_contact_ids, assoc_fail, contacts, grouped, no_contact,
                   built, msg, pIn, pOut>>

\* faulty variant: the diagnostic message is posted whatever the flag says
Debug_mut_always == DebugStep(TRUE)

Debug == DebugStep(DEBUG)

\* lines 304-305
Publish ==
    /\ pc = "digest"
    /\ built' = grouped
    /\ msg' = build_message(grouped, week_start, week_end)
    /\ \E ok \in BOOLEAN :
         /\ calls' = Append(calls, Call("slack", msg', ok, <<>>))
         /\ IF ok THEN pc' = "done" /\ UNCHANGED err
            ELSE Fail("post_to_slack")
    /\ UNCHANGED <<crm, now, DEBUG, week_start, week_end, meetings_raw, mode,
                   candidates, parse_errors, ci, meeting_to_contact_ids,
                   all_contact_ids, assoc_fail, contacts, grouped, no_contact,
                   pIn, pOut>>

Next ==
    \/ Main_Start
    \/ SearchMs
    \/ SearchIso
    \/ SearchAny
    \/ FilterCandidates
    \/ AssocLookup
    \/ BatchRead
    \/ Group
    \/ Debug
    \/ Publish

Spec == Init /\ [][Next]_vars


(***************************************************************************)
(* A stand-alone call of parse_hubspot_datetime on inputs around the       *)
(* thresholds                                                              *)
(***************************************************************************)
ParseSpread == 2

HiPoints ==
    {Base + d : d \in -ParseSpread..ParseSpread}
    \cup {-Base + d : d \in -ParseSpread..ParseSpread}
    \cup {MinSeconds[1] + d : d \in -ParseSpread..ParseSpread}
    \cup {-1, 0, 1, 17651, 17651484, -17651484}

LoPoints == {0, 1, 3199, 3200, 48400, Base - 1}

ParseInputs ==
    {Ms(<<h, l>>) : h \in HiPoints, l \in LoPoints}
    \cup {StartVals.thuIso, StartVals.tueIso, StartVals.friIso,
          StartVals.missing, StartVals.empty, StartVals.text}

InitParse ==
    /\ crm = <<>> /\ now = W0 /\ DEBUG = FALSE
    /\ pc = "idle"
    /\ Idle
    /\ pIn \in ParseInputs
    /\ pOut = <<>>

ParseCall ==
    /\ pc = "idle"
    /\ pOut = <<>>
    /\ pOut' = <<parse_hubspot_datetime(pIn)>>
    /\ UNCHANGED <<crm, now, DEBUG, pc, err, week_start, week_end,
                   meetings_raw, mode, candidates, parse_errors, ci,
                   meeting_to_contact_ids, all_contact_ids, assoc_fail,
                   contacts, grouped, no_contact, built, msg, calls, pIn>>

NextParse == ParseCall

SpecParse == InitParse /\ [][NextParse]_vars


(***************************************************************************)
(* Vocabulary of the properties                                            *)
(***************************************************************************)
CallsTo(api) == SelectSeq(calls, LAMBDA c : c.api = api)

Posts(kind) == SelectSeq(calls, LAMBDA c : c.api = "slack" /\ c.arg.kind = kind)

\* fetch_meetings_candidates has returned
Fetched == mode # ""

\* the local filter has run
Filtered == Fetched /\ pc # "filter"

\* the association loop has ended
Associated == Filtered /\ pc # "assoc"

\* the grouping has been computed
Grouped == pc \in {"debug", "digest", "done"} \/ (pc = "failed" /\ err = "post_to_slack")

\* build_message has been called
Built == msg.kind = "digest"

CandIds == {candidates[k].id : k \in 1..Len(candidates)}

Cutoff == IF Lt(week_start, now) THEN now ELSE week_start

\* the display name the contact directory gives for an id
NameOf(cid) ==
    IF cid \in DOMAIN Directory THEN DisplayName(cid, Directory[cid])
    ELSE <<"Contact", cid>>

\* candidate c has contact ids at the associations endpoint
HasContacts(c) == crm[c.id].assoc_ok /\ crm[c.id].cids # <<>>

ItemsOf(g) == {<<i, j>> \in (1..Len(g)) \X (1..(limit + 1)) :
                  j <= Len(g[i].items)}

InDigest(c) ==
    \E b \in 1..Len(msg.blocks) :
        /\ msg.blocks[b].handle = Handle(c.owner)
        /\ \E l \in 1..Len(msg.blocks[b].lines) :
              msg.blocks[b].lines[l] =
                  [contact |-> NameOf(crm[c.id].cids[1]), title |-> c.title, dt |-> c.dt]

FetchPos(id) == CHOOSE k \in 1..Len(meetings_raw) : meetings_raw[k].id = id

(***************************************************************************)
(* C1: once fetch_meetings_candidates has returned, every CRM meeting      *)
(* whose start lies in the week window is among the returned records.      *)
(***************************************************************************)
C1_AllWindowMeetingsFetched ==
    Fetched =>
        \A i \in 1..Len(crm) :
            (HasInstant(crm[i]) /\ Le(week_start, InstantOf(crm[i]))
                                /\ Lt(InstantOf(crm[i]), week_end))
            => \E k \in 1..Len(meetings_raw) : meetings_raw[k].id = i

(***************************************************************************)
(* C2: a failed meetings search ends the run at once with that error: the  *)
(* failed request is the last one, only search requests were ever issued   *)
(* (no association lookup, no contact lookup, no Slack post), and nothing  *)
(* more can happen.                                                        *)
(***************************************************************************)
C2_SearchFailureAbortsBeforeAnyPublish ==
    /\ \A k \in 1..Len(calls) :
          (calls[k].api = "meetings_search" /\ ~ calls[k].reply.ok)
          => (err = "meetings_search" /\ k = Len(calls))
    /\ err = "meetings_search" =>
          /\ pc = "failed"
          /\ ~ ENABLED Next
          /\ \A k \in 1..Len(calls) : calls[k].api = "meetings_search"
          /\ ~ Built

C2_Witness ==
    err = "meetings_search" /\ Len(calls) = 3 /\ Len(crm) > 0

(***************************************************************************)
(* C3: after the local filter, a fetched record with an owner and a        *)
(* parseable start dt is a candidate exactly when cutoff <= dt < week_end, *)
(* cutoff = max(week_start, now), so never when dt = week_end; any other   *)
(* record is no candidate.                                                 *)
(***************************************************************************)
C3_HalfOpenFromCutoff ==
    Filtered =>
        \A k \in 1..Len(meetings_raw) :
            LET r  == meetings_raw[k]
                p  == parse_hubspot_datetime(r.start)
            IN  IF HasOwner(r) /\ p.ok
                THEN /\ r.id \in CandIds <=> (Le(Cutoff, p.ms) /\ Lt(p.ms, week_end))
                     /\ p.ms = week_end => r.id \notin CandIds
                ELSE r.id \notin CandIds

\* the fetched records with an owner that start exactly at week_start
AtWeekStart ==
    {k \in 1..Len(meetings_raw) :
        /\ HasOwner(meetings_raw[k])
        /\ parse_hubspot_datetime(meetings_raw[k].start) = Parsed(week_start)}

\* C3 as claimed: in particular a record starting exactly at week_start is
\* included
C3_Original ==
    /\ C3_HalfOpenFromCutoff
    /\ Filtered => \A k \in AtWeekStart : meetings_raw[k].id \in CandIds

\* C3 amended: a record starting exactly at week_start is included only when
\* the run itself starts at week_start (otherwise it lies before the cutoff);
\* and the filter step never ends the run, whatever the records are.
C3_Amended ==
    /\ [](/\ C3_HalfOpenFromCutoff
          /\ Filtered => \A k \in AtWeekStart :
                            meetings_raw[k].id \in CandIds <=> now = week_start)
    /\ [][pc = "filter" => (pc' \in {"assoc", "batch"} /\ err' = "")]_vars

C3_Witness ==
    /\ Filtered
    /\ mode = "search_between_ms"
    /\ \E k \in 1..Len(candidates) : candidates[k].dt = week_start
    /\ \E k \in 1..Len(meetings_raw) :
          /\ meetings_raw[k].start = Ms(week_end)
          /\ meetings_raw[k].id \notin CandIds

(***************************************************************************)
(* C4: a failing association lookup never ends the run; the meeting is     *)
(* recorded with no contacts and dropped, the lookup is issued for every   *)
(* candidate, every candidate with a contact is in the digest, and a run   *)
(* that ends without error has published it.                               *)
(***************************************************************************)
C4_AssocFailureIsNotFatal ==
    /\ err \in {"", "meetings_search", "batch_read_contacts", "post_to_slack"}
    /\ \A k \in 1..Len(calls) :
          (calls[k].api = "associations" /\ ~ calls[k].reply.ok)
          => ContactIdsOf(meeting_to_contact_ids, calls[k].arg.id) = <<>>
    /\ pc = "assoc" => (Len(CallsTo("associations")) = ci - 1 /\ ci <= Len(candidates))
    /\ Associated =>
          /\ Len(CallsTo("associations")) = Len(candidates)
          /\ \A k \in 1..Len(candidates) :
                CallsTo("associations")[k].arg.id = candidates[k].id
    /\ Grouped =>
          \A k \in 1..Len(candidates) :
              ~ crm[candidates[k].id].assoc_ok =>
                  \A ij \in ItemsOf(grouped) :
                      grouped[ij[1]].items[ij[2]].mid # candidates[k].id
    /\ Built =>
          \A k \in 1..Len(candidates) :
              HasContacts(candidates[k]) => InDigest(candidates[k])
    /\ pc = "done" => Len(Posts("digest")) = 1

C4_Witness ==
    /\ pc = "done"
    /\ \E k, l \in 1..Len(candidates) :
          /\ k < l
          /\ ~ crm[candidates[k].id].assoc_ok
          /\ HasContacts(candidates[l])
          /\ InDigest(candidates[l])

(***************************************************************************)
(* C5: the digest is posted at most once and the diagnostic message at     *)
(* most once and only in debug mode; a run that ends without error has     *)
(* posted the digest exactly once, as its last request.                    *)
(***************************************************************************)
C5_OneDigestPerRun ==
    /\ Len(Posts("digest")) <= 1
    /\ Len(Posts("debug")) <= 1
    /\ Len(Posts("debug")) = 1 => DEBUG
    /\ Len(CallsTo("slack")) = Len(Posts("digest")) + Len(Posts("debug"))
    /\ pc = "done" =>
          /\ err = ""
          /\ Len(Posts("digest")) = 1
          /\ calls[Len(calls)].api = "slack"
          /\ calls[Len(calls)].arg.kind = "digest"
          /\ calls[Len(calls)].reply.ok
          /\ Len(Posts("debug")) = IF DEBUG THEN 1 ELSE 0

C5_Witness ==
    pc = "done" /\ DEBUG /\ Len(Posts("debug")) = 1 /\ Len(Posts("digest")) = 1
    /\ candidates # <<>>

(***************************************************************************)
(* C6: every entry of every owner group comes from a meeting whose lookup  *)
(* succeeded with at least one contact id; the digest has exactly one line *)
(* per candidate with contacts.                                            *)
(***************************************************************************)
C6_NoContactNoEntry ==
    /\ \A ij \in ItemsOf(grouped) :
          LET x == grouped[ij[1]].items[ij[2]]
          IN  /\ ContactIdsOf(meeting_to_contact_ids, x.mid) # <<>>
              /\ crm[x.mid].assoc_ok
              /\ crm[x.mid].cids # <<>>
    /\ Built =>
          /\ built = grouped
          /\ Cardinality(ItemsOf(built))
                = Cardinality({k \in 1..Len(candidates) : HasContacts(candidates[k])})

C6_Witness ==
    /\ pc = "done"
    /\ grouped # <<>>
    /\ \E k \in 1..Len(candidates) :
          crm[candidates[k].id].assoc_ok /\ crm[candidates[k].id].cids = <<>>

(***************************************************************************)
(* C7: once grouped, every candidate with contact ids has exactly one      *)
(* entry, in the one group of its owner, showing the display name of the   *)
(* first id of its association list, or "Contact <id>" when the directory  *)
(* has no entry for that id.                                               *)
(***************************************************************************)
C7_FirstContactShown ==
    Grouped =>
        /\ \A g, h \in 1..Len(grouped) : grouped[g].owner = grouped[h].owner => g = h
        /\ \A k \in 1..Len(candidates) :
              LET c    == candidates[k]
                  mine == {ij \in ItemsOf(grouped) : grouped[ij[1]].items[ij[2]].mid = c.id}
              IN  HasContacts(c) =>
                    /\ Cardinality(mine) = 1
                    /\ \A ij \in mine :
                          /\ grouped[ij[1]].owner = c.owner
                          /\ grouped[ij[1]].items[ij[2]] =
                                [dt |-> c.dt, contact |-> NameOf(crm[c.id].cids[1]),
                                 title |-> c.title, mid |-> c.id]
                    /\ crm[c.id].cids[1] \notin DOMAIN Directory =>
                          \A ij \in mine :
                              grouped[ij[1]].items[ij[2]].contact
                                  = <<"Contact", crm[c.id].cids[1]>>

C7_Witness ==
    /\ pc = "done"
    /\ \E k \in 1..Len(candidates) :
          /\ crm[candidates[k].id].cids = <<"c4", "c1">>
          /\ \E ij \in ItemsOf(grouped) :
                /\ grouped[ij[1]].items[ij[2]].mid = candidates[k].id
                /\ grouped[ij[1]].items[ij[2]].contact = <<"Contact", "c4">>

(***************************************************************************)
(* C8: the normalizer on an integer n.                                     *)
(***************************************************************************)
Abs(n) == IF n[1] < 0 THEN Minus(<<0, 0>>, n) ELSE n

\* the result for an integer input, the threshold being applied to the
\* magnitude of n (byMagnitude) or to n itself
ParseResultIs(byMagnitude) ==
    (pOut # <<>> /\ pIn.kind = "int") =>
        IF Le(MS_THRESHOLD, IF byMagnitude THEN Abs(pIn.n) ELSE pIn.n)
        THEN pOut[1] = Parsed(pIn.n)
        ELSE pOut[1].ok => pOut[1].ms = Times1000(pIn.n)

\* C8 as claimed: n is read as milliseconds when |n| >= 10,000,000,000 and
\* as seconds otherwise
C8_Original == ParseResultIs(TRUE)

\* C8 amended: n is read as milliseconds when n >= 10,000,000,000 and as
\* seconds otherwise, every negative n included; the only integers refused
\* are seconds values before year 1
C8_Amended ==
    /\ ParseResultIs(FALSE)
    /\ (pOut # <<>> /\ pIn.kind = "int" /\ ~ pOut[1].ok) => Lt(pIn.n, MinSeconds)

C8_Witness ==
    /\ pIn = Ms(<<-Base, 0>>)
    /\ pOut = <<Parsed(<<-1000 * Base, 0>>)>>

(***************************************************************************)
(* C9: the grouping build_message receives has no empty group, and every   *)
(* group is ascending by start instant with entries of equal instant in    *)
(* the order their meetings were fetched.                                  *)
(***************************************************************************)
C9_GroupsSortedStable ==
    /\ \A g \in 1..Len(grouped) : grouped[g].items # <<>>
    /\ Built =>
          \A g \in 1..Len(built) :
              /\ built[g].items # <<>>
              /\ \A i, j \in 1..Len(built[g].items) :
                    i < j =>
                        \/ Lt(built[g].items[i].dt, built[g].items[j].dt)
                        \/ /\ built[g].items[i].dt = built[g].items[j].dt
                           /\ FetchPos(built[g].items[i].mid) < FetchPos(built[g].items[j].mid)

C9_Witness ==
    /\ Built
    /\ \E g \in 1..Len(built) :
          /\ Len(built[g].items) = 2
          /\ built[g].items[1].dt = built[g].items[2].dt
          /\ built[g].items[1].mid = 2
    /\ mode = "search_unfiltered_fallback"

(***************************************************************************)
(* C10: the search requests are the first requests of the run and are, in  *)
(* order, the ms-range, the ISO-range and the unfiltered search; a later   *)
(* one is issued exactly when all earlier ones returned nothing; the       *)
(* records and the mode label are those of the last search issued.         *)
(***************************************************************************)
Cascade == << body_ms(week_start, week_end), body_iso(week_start, week_end), body_any >>

Labels == << "search_between_ms", "search_between_iso", "search_unfiltered_fallback" >>

Empty(c) == c.reply.ok /\ c.reply.results = <<>>

C10_ThreeStepCascade ==
    LET sc == CallsTo("meetings_search")
    IN  /\ Len(sc) <= 3
        /\ \A k \in 1..Len(sc) : calls[k] = sc[k] /\ sc[k].arg = Cascade[k]
        /\ pc \notin {"start", "search_ms"} => Len(sc) >= 1
        /\ \A k \in 2..Len(sc) : Empty(sc[k - 1])
        /\ (Fetched \/ err = "meetings_search") =>
              /\ (Len(sc) >= 2) <=> Empty(sc[1])
              /\ (Len(sc) >= 3) <=> (Empty(sc[1]) /\ Empty(sc[2]))
        /\ Fetched =>
              /\ sc[Len(sc)].reply.ok
              /\ meetings_raw = sc[Len(sc)].reply.results
              /\ mode = Labels[Len(sc)]
              /\ Len(sc) < 3 => meetings_raw # <<>>

C10_Witness ==
    /\ Fetched
    /\ Len(CallsTo("meetings_search")) = 3
    /\ meetings_raw # <<>>
    /\ candidates # <<>>

=============================================================================
